---- MODULE Spec2Model ----
(***************************************************************************)
(* pyboxen: boxen(...) validates its keyword arguments, resolves the       *)
(* padding and margin size specs with parse_size, builds an                *)
(* Align(Margin(Panel(...))) renderable and prints it into a capture of    *)
(* the module-level rich Console.  Two variants of the module exist:       *)
(* src/pyboxen/main.py (current) and src/boxen/main.py (earlier).          *)
(*                                                                         *)
(* Python values are modelled as records [t, n, s, e]: t is the type tag,  *)
(* n the number of an int or bool, s the text of a str, e the elements of  *)
(* a tuple.  One call is one pass of the program counter pc through        *)
(* boxen_steps; the console, ALL_BOXES and POSITION_TYPES outlive a call.  *)
(***************************************************************************)
EXTENDS Integers, Sequences, FiniteSets

\* Largest scalar size spec and largest tuple element drawn as an input.
MaxInt == 3
MaxElem == 1
\* Longest tuple size spec drawn as an input.
MaxTupleLen == 5
\* How many keyword arguments of one boxen call differ from their defaults.
MaxOverrides == 2

VARIABLES
    variant,         \* which main.py is loaded: "pyboxen" or "boxen"
    ALL_BOXES,       \* module global: style key -> rich box
    POSITION_TYPES,  \* module global: the list of alignments
    console,         \* module global: the shared Console, [depth, buffer]
    pc,              \* position of the running call, "idle" between calls
    op,              \* the function called: boxen, make_padding, make_margin
    args,            \* keyword arguments of the running call
    locals,          \* values build_box has computed so far: box, padding, pad
    delegate,        \* calls made on rich (console, Group, Align, Panel, Margin)
    err,             \* the exception being raised, NoErr when none
    out,             \* the value the call returned
    memo             \* an earlier returned boxen call, kept for comparison

vars == <<variant, ALL_BOXES, POSITION_TYPES, console, pc, op, args, locals,
          delegate, err, out, memo>>

----------------------------------------------------------------------------
\* Python values

Val(t, n, s, e) == [t |-> t, n |-> n, s |-> s, e |-> e]
PyInt(n) == Val("int", n, "", <<>>)
PyStr(s) == Val("str", 0, s, <<>>)
PyBool(b) == Val("bool", IF b THEN 1 ELSE 0, "", <<>>)
PyNone == Val("none", 0, "", <<>>)
PyTuple(e) == Val("tuple", 0, "", e)

\* isinstance(v, int): bool is a subclass of int
isinstance_int(v) == v.t \in {"int", "bool"}
isinstance_str(v) == v.t = "str"
isinstance_bool(v) == v.t = "bool"
isinstance_tuple(v) == v.t = "tuple"

\* bool(v), as the `if v and ...` guards evaluate it
truthy(v) ==
    CASE v.t = "none" -> FALSE
      [] v.t \in {"int", "bool"} -> v.n # 0
      [] v.t = "str" -> v.s # ""
      [] v.t = "tuple" -> Len(v.e) > 0
      [] OTHER -> TRUE

\* str.lower() on the strings the model draws
lower(s) ==
    CASE s = "ROUNDED" -> "rounded"
      [] s = "Double" -> "double"
      [] OTHER -> s

\* size * 3 on an int (a bool multiplies as 0 or 1 and yields an int)
times3(v) == PyInt(v.n * 3)

----------------------------------------------------------------------------
\* Exceptions

NoErr == [type |-> "", subject |-> "", text |-> "", list |-> {}, at |-> ""]
Raise(type, subject, text, list, at) ==
    [type |-> type, subject |-> subject, text |-> text, list |-> list, at |-> at]

\* The outcome of a function: its value, or the exception it raised.
Ok(v) == [err |-> NoErr, val |-> v]
Fail(e) == [err |-> e, val |-> <<>>]

----------------------------------------------------------------------------
\* parse_size, make_margin, make_padding

parse_size_scalar_unscaled(size, instance) ==
    IF isinstance_tuple(size) /\ Len(size.e) \notin {2, 4}
    THEN Fail(Raise("ValueError", instance,
             "tuples must have either a total of 2 or 4 elements in it", {},
             "parse_size"))
    ELSE IF isinstance_tuple(size) /\ Len(size.e) = 2
    THEN Ok(<<size.e[1], size.e[2], size.e[1], size.e[2]>>)
    ELSE IF isinstance_tuple(size) /\ Len(size.e) = 4
    THEN Ok(<<size.e[1], size.e[2], size.e[3], size.e[4]>>)
    ELSE IF isinstance_int(size)
    THEN Ok(<<size, size, size, size>>)
    ELSE Fail(Raise("TypeError", instance,
             "must be either int or tuple of ints", {}, "parse_size"))

parse_size_left_right_swapped(size, instance) ==
    IF isinstance_tuple(size) /\ Len(size.e) \notin {2, 4}
    THEN Fail(Raise("ValueError", instance,
             "tuples must have either a total of 2 or 4 elements in it", {},
             "parse_size"))
    ELSE IF isinstance_tuple(size) /\ Len(size.e) = 2
    THEN Ok(<<size.e[1], size.e[2], size.e[1], size.e[2]>>)
    ELSE IF isinstance_tuple(size) /\ Len(size.e) = 4
    THEN Ok(<<size.e[1], size.e[4], size.e[3], size.e[2]>>)
    ELSE IF isinstance_int(size)
    THEN Ok(<<size, times3(size), size, times3(size)>>)
    ELSE Fail(Raise("TypeError", instance,
             "must be either int or tuple of ints", {}, "parse_size"))

parse_size_odd_lengths_padded(size, instance) ==
    IF isinstance_tuple(size) /\ Len(size.e) \notin {1, 2, 4}
    THEN Fail(Raise("ValueError", instance,
             "tuples must have either a total of 2 or 4 elements in it", {},
             "parse_size"))
    ELSE IF isinstance_tuple(size) /\ Len(size.e) = 1
    THEN Ok(<<size.e[1], size.e[1], size.e[1], size.e[1]>>)
    ELSE IF isinstance_tuple(size) /\ Len(size.e) = 2
    THEN Ok(<<size.e[1], size.e[2], size.e[1], size.e[2]>>)
    ELSE IF isinstance_tuple(size) /\ Len(size.e) = 4
    THEN Ok(<<size.e[1], size.e[2], size.e[3], size.e[4]>>)
    ELSE IF isinstance_int(size)
    THEN Ok(<<size, times3(size), size, times3(size)>>)
    ELSE Fail(Raise("TypeError", instance,
             "must be either int or tuple of ints", {}, "parse_size"))

parse_size_pair_returned_as_is(size, instance) ==
    IF isinstance_tuple(size) /\ Len(size.e) \notin {2, 4}
    THEN Fail(Raise("ValueError", instance,
             "tuples must have either a total of 2 or 4 elements in it", {},
             "parse_size"))
    ELSE IF isinstance_tuple(size) /\ Len(size.e) = 2
    THEN Ok(<<size.e[1], size.e[2]>>)
    ELSE IF isinstance_tuple(size) /\ Len(size.e) = 4
    THEN Ok(<<size.e[1], size.e[2], size.e[3], size.e[4]>>)
    ELSE IF isinstance_int(size)
    THEN Ok(<<size, times3(size), size, times3(size)>>)
    ELSE Fail(Raise("TypeError", instance,
             "must be either int or tuple of ints", {}, "parse_size"))

parse_size(size, instance) ==
    IF isinstance_tuple(size) /\ Len(size.e) \notin {2, 4}
    THEN Fail(Raise("ValueError", instance,
             "tuples must have either a total of 2 or 4 elements in it", {},
             "parse_size"))
    ELSE IF isinstance_tuple(size) /\ Len(size.e) = 2
    THEN Ok(<<size.e[1], size.e[2], size.e[1], size.e[2]>>)
    ELSE IF isinstance_tuple(size) /\ Len(size.e) = 4
    THEN Ok(<<size.e[1], size.e[2], size.e[3], size.e[4]>>)
    ELSE IF isinstance_int(size)
    THEN Ok(<<size, times3(size), size, times3(size)>>)
    ELSE Fail(Raise("TypeError", instance,
             "must be either int or tuple of ints", {}, "parse_size"))

make_margin(margin) == parse_size(margin, "margin")

make_padding(padding) == parse_size(padding, "padding")

----------------------------------------------------------------------------
\* Module globals

ALL_BOXES_pyboxen ==
    [k \in {"ascii", "ascii2", "ascii_double_head", "square",
            "square_double_head", "minimal", "horizontals", "rounded",
            "heavy", "double"} |->
        CASE k = "ascii" -> "box.ASCII"
          [] k = "ascii2" -> "box.ASCII2"
          [] k = "ascii_double_head" -> "box.ASCII_DOUBLE_HEAD"
          [] k = "square" -> "box.SQUARE"
          [] k = "square_double_head" -> "box.SQUARE_DOUBLE_HEAD"
          [] k = "minimal" -> "box.MINIMAL"
          [] k = "horizontals" -> "box.HORIZONTALS"
          [] k = "rounded" -> "box.ROUNDED"
          [] k = "heavy" -> "box.HEAVY"
          [] k = "double" -> "box.DOUBLE"]

ALL_BOXES_boxen ==
    [k \in DOMAIN ALL_BOXES_pyboxen \cup
           {"minimal_heavy_head", "minimal_double_head", "simple",
            "simple_head", "simple_heavy", "heavy_edge", "heavy_head",
            "double_edge", "markdown"} |->
        CASE k \in DOMAIN ALL_BOXES_pyboxen -> ALL_BOXES_pyboxen[k]
          [] k = "minimal_heavy_head" -> "box.MINIMAL_HEAVY_HEAD"
          [] k = "minimal_double_head" -> "box.MINIMAL_DOUBLE_HEAD"
          [] k = "simple" -> "box.SIMPLE"
          [] k = "simple_head" -> "box.SIMPLE_HEAD"
          [] k = "simple_heavy" -> "box.SIMPLE_HEAVY"
          [] k = "heavy_edge" -> "box.HEAVY_EDGE"
          [] k = "heavy_head" -> "box.HEAVY_HEAD"
          [] k = "double_edge" -> "box.DOUBLE_EDGE"
          [] k = "markdown" -> "box.MARKDOWN"]

\* ALL_BOXES as the loaded module defines it
ALL_BOXES_of(v) == IF v = "pyboxen" THEN ALL_BOXES_pyboxen ELSE ALL_BOXES_boxen

POSITION_TYPES_initial == <<"left", "center", "right">>

\* console: Console = Console(): no capture open, nothing buffered
console_initial == [depth |-> 0, buffer |-> <<>>]

\* x in POSITION_TYPES (list membership compares with ==)
in_POSITION_TYPES(x) ==
    isinstance_str(x) /\ \E i \in DOMAIN POSITION_TYPES : POSITION_TYPES[i] = x.s

\* style.lower() in ALL_BOXES.keys(), for a str
in_ALL_BOXES(style) == lower(style.s) \in DOMAIN ALL_BOXES

----------------------------------------------------------------------------
\* boxen: the keyword defaults

Defaults ==
    [color |-> PyStr("white"),
     style |-> PyStr("rounded"),
     padding |-> PyInt(0),
     margin |-> PyInt(0),
     text_alignment |-> PyStr("center"),
     box_alignment |-> PyStr("left"),
     title |-> PyNone,
     title_alignment |-> PyStr("left"),
     subtitle |-> PyNone,
     subtitle_alignment |-> PyStr("left"),
     fullwidth |-> PyBool(FALSE)]

----------------------------------------------------------------------------
\* boxen.validate_args: the condition of each `if`, in source order

color_rejected(a) == truthy(a.color) /\ ~isinstance_str(a.color)

title_rejected(a) == truthy(a.title) /\ ~isinstance_str(a.title)

subtitle_rejected(a) == truthy(a.subtitle) /\ ~isinstance_str(a.subtitle)

\* pyboxen: style and (not str or style.lower() not in keys) -> ValueError.
\* boxen:   style and not str and style.lower() not in keys: the third
\*          operand is reached only by a non-str, where .lower() raises
\*          AttributeError; a str never reaches it.
style_rejected(a) ==
    IF variant = "pyboxen"
    THEN truthy(a.style) /\ (~isinstance_str(a.style) \/ ~in_ALL_BOXES(a.style))
    ELSE FALSE

style_lower_fails(a) ==
    IF variant = "pyboxen"
    THEN FALSE
    ELSE truthy(a.style) /\ ~isinstance_str(a.style)

text_alignment_unguarded(a) ==
    ~isinstance_str(a.text_alignment) \/ ~in_POSITION_TYPES(a.text_alignment)

text_alignment_rejected(a) ==
    IF variant = "pyboxen"
    THEN truthy(a.text_alignment)
         /\ (~isinstance_str(a.text_alignment)
             \/ ~in_POSITION_TYPES(a.text_alignment))
    ELSE truthy(a.text_alignment)
         /\ ~isinstance_str(a.text_alignment)
         /\ ~in_POSITION_TYPES(a.text_alignment)

box_alignment_rejected(a) ==
    IF variant = "pyboxen"
    THEN truthy(a.box_alignment)
         /\ (~isinstance_str(a.box_alignment)
             \/ ~in_POSITION_TYPES(a.box_alignment))
    ELSE truthy(a.box_alignment)
         /\ ~isinstance_str(a.box_alignment)
         /\ ~in_POSITION_TYPES(a.box_alignment)

title_alignment_and_binds_last(a) ==
    IF variant = "pyboxen"
    THEN truthy(a.title_alignment)
         /\ (~isinstance_str(a.title_alignment)
             \/ ~in_POSITION_TYPES(a.title_alignment))
    ELSE truthy(a.title_alignment)
         /\ (~isinstance_str(a.title_alignment)
             \/ ~in_POSITION_TYPES(a.title_alignment))

\* boxen: `A and B or C` parses as (A and B) or C
title_alignment_rejected(a) ==
    IF variant = "pyboxen"
    THEN truthy(a.title_alignment)
         /\ (~isinstance_str(a.title_alignment)
             \/ ~in_POSITION_TYPES(a.title_alignment))
    ELSE (truthy(a.title_alignment) /\ ~isinstance_str(a.title_alignment))
         \/ ~in_POSITION_TYPES(a.title_alignment)

subtitle_alignment_rejected(a) ==
    IF variant = "pyboxen"
    THEN truthy(a.subtitle_alignment)
         /\ (~isinstance_str(a.subtitle_alignment)
             \/ ~in_POSITION_TYPES(a.subtitle_alignment))
    ELSE (truthy(a.subtitle_alignment) /\ ~isinstance_str(a.subtitle_alignment))
         \/ ~in_POSITION_TYPES(a.subtitle_alignment)

fullwidth_int_accepted(a) ==
    truthy(a.fullwidth) /\ ~isinstance_int(a.fullwidth)

fullwidth_rejected(a) == truthy(a.fullwidth) /\ ~isinstance_bool(a.fullwidth)

\* The exception validate_args raises on a, NoErr when it returns.
validate_args(a) ==
    LET P == {POSITION_TYPES[i] : i \in DOMAIN POSITION_TYPES}
        V == "validate_args"
    IN  IF color_rejected(a)
        THEN Raise("TypeError", "color", "must be a string", {}, V)
        ELSE IF title_rejected(a)
        THEN Raise("TypeError", "title", "must be a string", {}, V)
        ELSE IF subtitle_rejected(a)
        THEN Raise("TypeError", "subtitle", "must be a string", {}, V)
        ELSE IF style_lower_fails(a)
        THEN Raise("AttributeError", "style", "has no attribute 'lower'", {}, V)
        ELSE IF style_rejected(a)
        THEN Raise("ValueError", "style", "must be one of", DOMAIN ALL_BOXES, V)
        ELSE IF text_alignment_rejected(a)
        THEN Raise("ValueError", "text alignment", "must be one of", P, V)
        ELSE IF box_alignment_rejected(a)
        THEN Raise("ValueError", "box alignment", "must be one of", P, V)
        ELSE IF title_alignment_rejected(a)
        THEN Raise("ValueError", "title alignment", "must be one of", P, V)
        ELSE IF subtitle_alignment_rejected(a)
        THEN Raise("ValueError", "subtitle alignment", "must be one of", P, V)
        ELSE IF fullwidth_rejected(a)
        THEN Raise("TypeError", "fullwidth", "must be either True or False", {}, V)
        ELSE NoErr

----------------------------------------------------------------------------
\* boxen: the order in which one call runs.  validate_args() comes first;
\* `with console.capture()` is entered before build_box() is evaluated, and
\* build_box evaluates its arguments innermost first, left to right.

boxen_steps_validate_inside_capture ==
    <<"console.capture", "validate_args", "Group", "Align.text", "ALL_BOXES[]",
      "make_padding", "Panel", "make_margin", "Margin", "Align.box",
      "console.print", "capture.exit", "capture.get">>

boxen_steps ==
    <<"validate_args", "console.capture", "Group", "Align.text", "ALL_BOXES[]",
      "make_padding", "Panel", "make_margin", "Margin", "Align.box",
      "console.print", "capture.exit", "capture.get">>

first_step == boxen_steps[1]

step_after(s) ==
    LET i == CHOOSE j \in DOMAIN boxen_steps : boxen_steps[j] = s
    IN  IF i = Len(boxen_steps) THEN "returned" ELSE boxen_steps[i + 1]

\* The steps that construct a rich renderable.
constructors == {"Group", "Align.text", "Panel", "Margin", "Align.box"}

\* Whether the running call is inside its `with console.capture()` block.
in_capture == "console.capture" \in {delegate[i] : i \in DOMAIN delegate}

\* Where an exception raised at the current step goes: through the with
\* block's exit when inside it, out of boxen otherwise.
raise_to == IF in_capture THEN "capture.exit" ELSE "raised"

locals_initial == [box |-> "", padding |-> <<>>, pad |-> <<>>, captured |-> <<>>]

\* What console.print is given: the Align(Margin(Panel(...))) of the call.
build_box(a, l) == [box |-> l.box, padding |-> l.padding, pad |-> l.pad, args |-> a]

\* Leaving the capture without ending it keeps what was printed buffered.
capture_exit_keeps_buffer(c) == [depth |-> c.depth - 1, buffer |-> c.buffer]

\* Capture.__exit__: the capture ends, the buffer is handed over and emptied.
capture_exit(c) == [depth |-> c.depth - 1, buffer |-> <<>>]

----------------------------------------------------------------------------
\* Inputs

Ints == {PyInt(n) : n \in -1..MaxInt}
Elems == {PyInt(n) : n \in -1..MaxElem}
Tuples == UNION {{PyTuple(e) : e \in [1..len -> Elems]} : len \in 0..MaxTupleLen}

\* Size specs given to make_padding and make_margin directly.
SizeSpecs ==
    Ints \cup Tuples \cup {PyBool(TRUE), PyBool(FALSE), PyStr("1"), PyNone}

\* Size specs given to boxen: every scalar, and one tuple of each length.
ArgSizes ==
    Ints \cup {PyTuple([i \in 1..len |-> PyInt(i)]) : len \in 0..MaxTupleLen}
         \cup {PyBool(TRUE), PyStr("1"), PyNone}

Alignments ==
    {PyStr("left"), PyStr("center"), PyStr("right"), PyStr("up"), PyStr(""),
     PyNone, PyInt(5)}

Alternatives(f) ==
    CASE f = "color" -> {PyNone, PyInt(5)}
      [] f = "title" -> {PyStr("T"), PyInt(5)}
      [] f = "subtitle" -> {PyStr("S"), PyInt(5)}
      [] f = "style" -> {PyStr("ROUNDED"), PyStr("Double"), PyStr("simple"),
                         PyStr("nope"), PyStr(""), PyNone, PyInt(5)}
      [] f \in {"padding", "margin"} -> ArgSizes
      [] f \in {"text_alignment", "box_alignment", "title_alignment",
                "subtitle_alignment"} -> Alignments
      [] f = "fullwidth" -> {PyBool(TRUE), PyStr("yes"), PyNone, PyInt(0),
                             PyInt(1)}

\* One keyword argument given in a call; giving the default changes nothing.
Overrides ==
    UNION {{[f |-> f, v |-> v] : v \in Alternatives(f) \cup {Defaults[f]}} :
              f \in DOMAIN Defaults}

\* The keyword arguments of a call that gives ov[1], ..., ov[i].
RECURSIVE given(_, _)
given(ov, i) ==
    IF i = 0 THEN Defaults ELSE [given(ov, i - 1) EXCEPT ![ov[i].f] = ov[i].v]

----------------------------------------------------------------------------
\* State after import: globals as defined, no call running

memo_none == [set |-> FALSE, args |-> Defaults, out |-> <<>>, failed |-> FALSE]

Init ==
    /\ variant \in {"pyboxen", "boxen"}
    /\ ALL_BOXES = ALL_BOXES_of(variant)
    /\ POSITION_TYPES = POSITION_TYPES_initial
    /\ console = console_initial
    /\ pc = "idle"
    /\ op = "none"
    /\ args = Defaults
    /\ locals = locals_initial
    /\ delegate = <<>>
    /\ err = NoErr
    /\ out = <<>>
    /\ memo = memo_none

globals == <<variant, ALL_BOXES, POSITION_TYPES>>

----------------------------------------------------------------------------
\* Calls of the module's functions

CallBoxen(k) ==
    /\ pc = "idle"
    /\ \E ov \in [1..k -> Overrides] : args' = given(ov, k)
    /\ op' = "boxen"
    /\ pc' = first_step
    /\ UNCHANGED <<globals, console, locals, delegate, err, out, memo>>

CallMakePadding ==
    /\ pc = "idle"
    /\ \E size \in SizeSpecs : args' = [Defaults EXCEPT !.padding = size]
    /\ op' = "make_padding"
    /\ pc' = "parse_size"
    /\ UNCHANGED <<globals, console, locals, delegate, err, out, memo>>

CallMakeMargin ==
    /\ pc = "idle"
    /\ \E size \in SizeSpecs : args' = [Defaults EXCEPT !.margin = size]
    /\ op' = "make_margin"
    /\ pc' = "parse_size"
    /\ UNCHANGED <<globals, console, locals, delegate, err, out, memo>>

\* make_padding / make_margin called directly: parse_size returns or raises
ParseSize ==
    /\ pc = "parse_size"
    /\ LET r == IF op = "make_padding"
                THEN make_padding(args.padding)
                ELSE make_margin(args.margin)
       IN  /\ err' = r.err
           /\ out' = r.val
           /\ pc' = IF r.err = NoErr THEN "returned" ELSE "raised"
    /\ UNCHANGED <<globals, console, op, args, locals, delegate, memo>>

----------------------------------------------------------------------------
\* The steps of one boxen call

ValidateArgs ==
    /\ pc = "validate_args"
    /\ LET e == validate_args(args)
       IN  /\ err' = e
           /\ pc' = IF e = NoErr THEN step_after(pc) ELSE raise_to
    /\ UNCHANGED <<globals, console, op, args, locals, delegate, out, memo>>

\* with console.capture() as capture: __enter__ begins the capture
CaptureEnter ==
    /\ pc = "console.capture"
    /\ console' = [console EXCEPT !.depth = @ + 1]
    /\ delegate' = Append(delegate, pc)
    /\ pc' = step_after(pc)
    /\ UNCHANGED <<globals, op, args, locals, err, out, memo>>

\* Group(*text), Align(...), Panel(...), Margin(...), Align(...): a call into
\* rich, which returns the renderable or raises
Construct ==
    /\ pc \in constructors
    /\ delegate' = Append(delegate, pc)
    /\ \E ok \in BOOLEAN :
          IF ok
          THEN pc' = step_after(pc) /\ err' = err
          ELSE pc' = raise_to /\ err' = Raise("RichError", pc, "", {}, "rich")
    /\ UNCHANGED <<globals, console, op, args, locals, out, memo>>

\* box=ALL_BOXES[style.lower()]
lookup_box(style) ==
    IF ~isinstance_str(style)
    THEN Fail(Raise("AttributeError", "style", "has no attribute 'lower'", {},
                    "build_box"))
    ELSE IF ~in_ALL_BOXES(style)
    THEN Fail(Raise("KeyError", "style", lower(style.s), {}, "build_box"))
    ELSE Ok(<<ALL_BOXES[lower(style.s)]>>)

LookupBox ==
    /\ pc = "ALL_BOXES[]"
    /\ LET r == lookup_box(args.style)
       IN  IF r.err = NoErr
           THEN /\ locals' = [locals EXCEPT !.box = r.val[1]]
                /\ pc' = step_after(pc)
                /\ err' = err
           ELSE /\ locals' = locals
                /\ pc' = raise_to
                /\ err' = r.err
    /\ UNCHANGED <<globals, console, op, args, delegate, out, memo>>

\* padding=make_padding(padding)
MakePadding ==
    /\ pc = "make_padding"
    /\ LET r == make_padding(args.padding)
       IN  IF r.err = NoErr
           THEN /\ locals' = [locals EXCEPT !.padding = r.val]
                /\ pc' = step_after(pc)
                /\ err' = err
           ELSE /\ locals' = locals
                /\ pc' = raise_to
                /\ err' = r.err
    /\ UNCHANGED <<globals, console, op, args, delegate, out, memo>>

\* pad=make_margin(margin)
MakeMargin ==
    /\ pc = "make_margin"
    /\ LET r == make_margin(args.margin)
       IN  IF r.err = NoErr
           THEN /\ locals' = [locals EXCEPT !.pad = r.val]
                /\ pc' = step_after(pc)
                /\ err' = err
           ELSE /\ locals' = locals
                /\ pc' = raise_to
                /\ err' = r.err
    /\ UNCHANGED <<globals, console, op, args, delegate, out, memo>>

\* console.print(build_box()): inside a capture the output stays in the
\* console's buffer.  rich may raise while rendering, with or without output.
ConsolePrint ==
    /\ pc = "console.print"
    /\ delegate' = Append(delegate, pc)
    /\ LET printed == IF console.depth > 0
                      THEN [console EXCEPT
                               !.buffer = Append(@, build_box(args, locals))]
                      ELSE console
       IN  \E ok \in BOOLEAN :
              IF ok
              THEN /\ console' = printed
                   /\ pc' = step_after(pc)
                   /\ err' = err
              ELSE /\ console' \in {console, printed}
                   /\ pc' = raise_to
                   /\ err' = Raise("RichError", pc, "", {}, "rich")
    /\ UNCHANGED <<globals, op, args, locals, out, memo>>

\* the with block is left, normally or by an exception
CaptureExit ==
    /\ pc = "capture.exit"
    /\ locals' = [locals EXCEPT !.captured = console.buffer]
    /\ console' = capture_exit(console)
    /\ delegate' = Append(delegate, pc)
    /\ pc' = IF err # NoErr THEN "raised" ELSE step_after(pc)
    /\ UNCHANGED <<globals, op, args, err, out, memo>>

\* return capture.get()
CaptureGet ==
    /\ pc = "capture.get"
    /\ out' = locals.captured
    /\ delegate' = Append(delegate, pc)
    /\ pc' = step_after(pc)
    /\ UNCHANGED <<globals, console, op, args, locals, err, memo>>

\* the call is over: its frame is discarded
Done ==
    /\ pc \in {"returned", "raised"}
    /\ pc' = "idle"
    /\ op' = "none"
    /\ args' = Defaults
    /\ locals' = locals_initial
    /\ delegate' = <<>>
    /\ err' = NoErr
    /\ out' = <<>>
    /\ memo' = IF memo.set /\ pc = "raised"
               THEN [memo EXCEPT !.failed = TRUE]
               ELSE memo
    /\ UNCHANGED <<globals, console>>

\* keep a returned boxen call, to compare a later call with it
Remember ==
    /\ pc = "returned"
    /\ op = "boxen"
    /\ ~memo.set
    /\ memo' = [set |-> TRUE, args |-> args, out |-> out, failed |-> FALSE]
    /\ UNCHANGED <<globals, console, pc, op, args, locals, delegate, err, out>>

BoxenStep ==
    \/ ValidateArgs
    \/ CaptureEnter
    \/ Construct
    \/ LookupBox
    \/ MakePadding
    \/ MakeMargin
    \/ ConsolePrint
    \/ CaptureExit
    \/ CaptureGet

Next ==
    \/ CallBoxen(MaxOverrides)
    \/ CallMakePadding
    \/ CallMakeMargin
    \/ ParseSize
    \/ BoxenStep
    \/ Done

Spec == Init /\ [][Next]_vars

NextRepeat ==
    \/ CallBoxen(1)
    \/ BoxenStep
    \/ Remember
    \/ Done

SpecRepeat == Init /\ [][NextRepeat]_vars

----------------------------------------------------------------------------
\* Vocabulary of the properties

finished == pc \in {"returned", "raised"}

direct == op \in {"make_padding", "make_margin"}

\* The size spec and the role of a direct make_padding / make_margin call.
size_given == IF op = "make_padding" THEN args.padding ELSE args.margin
role_given == IF op = "make_padding" THEN "padding" ELSE "margin"

\* In a boxen call: make_padding / make_margin has been called.
padding_resolved ==
    /\ op = "boxen"
    /\ locals.padding # <<>> \/ (err.at = "parse_size" /\ err.subject = "padding")
margin_resolved ==
    /\ op = "boxen"
    /\ locals.pad # <<>> \/ (err.at = "parse_size" /\ err.subject = "margin")

nonneg_int(v) == isinstance_int(v) /\ v.n >= 0
scalar(v) == v.t = "int" /\ v.n >= 0
scaled(v) == <<PyInt(v.n), PyInt(v.n * 3), PyInt(v.n), PyInt(v.n * 3)>>
tuple_of(v, len) == v.t = "tuple" /\ Len(v.e) = len
bad_tuple(v) == v.t = "tuple" /\ Len(v.e) \notin {2, 4}
all_nonneg(v) ==
    IF v.t = "tuple" THEN \A i \in DOMAIN v.e : nonneg_int(v.e[i]) ELSE nonneg_int(v)

\* In a boxen call: the step has been run.
position(s) == CHOOSE j \in DOMAIN boxen_steps : boxen_steps[j] = s
after(s) ==
    /\ op = "boxen"
    /\ \/ pc = "returned"
       \/ pc \in {boxen_steps[j] : j \in DOMAIN boxen_steps} /\ position(pc) > position(s)
validated == after("validate_args") \/ (op = "boxen" /\ err.at = "validate_args")
looked_up == after("ALL_BOXES[]") \/ (op = "boxen" /\ err.type = "KeyError")

delegated == {delegate[i] : i \in DOMAIN delegate}

others_default(f) == \A g \in DOMAIN Defaults \ {f} : args[g] = Defaults[g]

\* The subject validate_args names for each argument, in the order checked.
subjects ==
    <<"color", "title", "subtitle", "style", "text alignment", "box alignment",
      "title alignment", "subtitle alignment", "fullwidth">>
checked_before(subject) ==
    {subjects[i] : i \in {j \in DOMAIN subjects :
                             \E k \in DOMAIN subjects : k > j /\ subjects[k] = subject}}
alignment_fields ==
    {"text_alignment", "box_alignment", "title_alignment", "subtitle_alignment"}
subject_of(f) ==
    CASE f = "text_alignment" -> "text alignment"
      [] f = "box_alignment" -> "box alignment"
      [] f = "title_alignment" -> "title alignment"
      [] f = "subtitle_alignment" -> "subtitle alignment"
      [] OTHER -> f
positions == {"left", "center", "right"}
valid_position(v) == v.t = "str" /\ v.s \in positions
rejected_by_validate(subject) ==
    pc = "raised" /\ err.at = "validate_args" /\ err.subject = subject

----------------------------------------------------------------------------
\* C1: a scalar size spec n >= 0 resolves to (n, n*3, n, n*3), for padding
\* and for margin alike, called directly or from boxen.
C1_ScalarScaled ==
    /\ direct /\ finished /\ scalar(size_given)
          => pc = "returned" /\ out = scaled(size_given)
    /\ padding_resolved /\ scalar(args.padding)
          => locals.padding = scaled(args.padding)
    /\ margin_resolved /\ scalar(args.margin)
          => locals.pad = scaled(args.margin)

C1_Witness ==
    /\ op = "make_margin" /\ pc = "returned"
    /\ args.margin = PyInt(2)
    /\ out = <<PyInt(2), PyInt(6), PyInt(2), PyInt(6)>>

\* C2: a tuple size spec is not scaled: (a, b) resolves to (a, b, a, b) and
\* (a, b, c, d) to (a, b, c, d).
C2_TuplesUnscaled ==
    /\ direct /\ finished /\ tuple_of(size_given, 2)
          => /\ pc = "returned"
             /\ out = <<size_given.e[1], size_given.e[2],
                        size_given.e[1], size_given.e[2]>>
    /\ direct /\ finished /\ tuple_of(size_given, 4)
          => pc = "returned" /\ out = size_given.e
    /\ padding_resolved /\ tuple_of(args.padding, 2)
          => locals.padding = <<args.padding.e[1], args.padding.e[2],
                                args.padding.e[1], args.padding.e[2]>>
    /\ padding_resolved /\ tuple_of(args.padding, 4)
          => locals.padding = args.padding.e
    /\ margin_resolved /\ tuple_of(args.margin, 2)
          => locals.pad = <<args.margin.e[1], args.margin.e[2],
                            args.margin.e[1], args.margin.e[2]>>
    /\ margin_resolved /\ tuple_of(args.margin, 4)
          => locals.pad = args.margin.e

C2_Witness ==
    /\ op = "make_padding" /\ pc = "returned"
    /\ args.padding = PyTuple(<<PyInt(1), PyInt(-1), PyInt(0), PyInt(1)>>)
    /\ out = <<PyInt(1), PyInt(-1), PyInt(0), PyInt(1)>>

\* C3: a tuple size spec of a length other than 2 and 4 makes parse_size raise
\* the ValueError of its role and return nothing, and a boxen call given one
\* as padding or margin returns no string.
C3_BadTupleRaises ==
    /\ direct /\ finished /\ bad_tuple(size_given)
          => /\ pc = "raised"
             /\ err.type = "ValueError" /\ err.subject = role_given
             /\ out = <<>>
    /\ padding_resolved /\ bad_tuple(args.padding)
          => /\ err.type = "ValueError" /\ err.subject = "padding"
             /\ locals.padding = <<>>
    /\ margin_resolved /\ bad_tuple(args.margin)
          => /\ err.type = "ValueError" /\ err.subject = "margin"
             /\ locals.pad = <<>>
    /\ op = "boxen" /\ (bad_tuple(args.padding) \/ bad_tuple(args.margin))
          => pc # "returned" /\ out = <<>>

C3_Witness ==
    /\ op = "boxen" /\ pc = "raised"
    /\ tuple_of(args.margin, 3)
    /\ err.type = "ValueError" /\ err.subject = "margin" /\ err.at = "parse_size"

\* C4 as stated: whatever parse_size returns is a 4-tuple of non-negative
\* integers.
C4_NonNegativeInsets ==
    /\ direct /\ pc = "returned"
          => Len(out) = 4 /\ \A i \in DOMAIN out : nonneg_int(out[i])
    /\ op = "boxen" /\ locals.padding # <<>>
          => /\ Len(locals.padding) = 4
             /\ \A i \in DOMAIN locals.padding : nonneg_int(locals.padding[i])
    /\ op = "boxen" /\ locals.pad # <<>>
          => /\ Len(locals.pad) = 4
             /\ \A i \in DOMAIN locals.pad : nonneg_int(locals.pad[i])

\* C4 amended: whatever parse_size returns for an int or a tuple of ints is a
\* 4-tuple of integers, and no sign is checked: its elements are all
\* non-negative exactly when the int, or every element of the tuple, is.
C4_InsetsSignFollowsInput ==
    /\ direct /\ pc = "returned"
          => /\ Len(out) = 4
             /\ \A i \in DOMAIN out : isinstance_int(out[i])
             /\ (\A i \in DOMAIN out : nonneg_int(out[i])) <=> all_nonneg(size_given)
    /\ op = "boxen" /\ locals.padding # <<>>
          => /\ Len(locals.padding) = 4
             /\ (\A i \in DOMAIN locals.padding : nonneg_int(locals.padding[i]))
                   <=> all_nonneg(args.padding)
    /\ op = "boxen" /\ locals.pad # <<>>
          => /\ Len(locals.pad) = 4
             /\ (\A i \in DOMAIN locals.pad : nonneg_int(locals.pad[i]))
                   <=> all_nonneg(args.margin)

C4_Witness ==
    /\ op = "make_padding" /\ pc = "returned"
    /\ args.padding = PyInt(-1)
    /\ out = <<PyInt(-1), PyInt(-3), PyInt(-1), PyInt(-3)>>

\* C5: in pyboxen, a style whose lower-cased form is no key of ALL_BOXES is
\* rejected by validate_args with the ValueError listing the keys, and a key
\* in any letter case passes validate_args and is found by the lookup.
C5_StyleChecked ==
    variant = "pyboxen" /\ op = "boxen" /\ validated /\ others_default("style")
        /\ isinstance_str(args.style)
    => IF lower(args.style.s) \in DOMAIN ALL_BOXES_pyboxen
       THEN /\ err.at # "validate_args"
            /\ err.type \notin {"KeyError", "AttributeError"}
            /\ looked_up => locals.box = ALL_BOXES_pyboxen[lower(args.style.s)]
       ELSE /\ rejected_by_validate("style")
            /\ err.type = "ValueError"
            /\ err.list = DOMAIN ALL_BOXES_pyboxen

\* C6 as stated: in pyboxen, every value of an alignment field outside left,
\* center, right is rejected by validate_args with the ValueError naming the
\* field, and every value inside is accepted.
C6_AlignmentChecked ==
    \A f \in alignment_fields :
        variant = "pyboxen" /\ op = "boxen" /\ validated /\ others_default(f)
        => IF valid_position(args[f])
           THEN err.at # "validate_args"
           ELSE rejected_by_validate(subject_of(f)) /\ err.type = "ValueError"

\* C6 amended: in pyboxen, every truthy value of an alignment field outside
\* left, center, right makes validate_args raise: the ValueError naming the
\* field and listing POSITION_TYPES, unless the check of an earlier argument
\* raises first.  A falsy value (None, "") skips the check, and a value
\* inside the set passes it: validate_args never names the field for them.
C6_TruthyAlignmentChecked ==
    \A f \in alignment_fields :
        variant = "pyboxen" /\ op = "boxen" /\ validated
        => IF valid_position(args[f]) \/ ~truthy(args[f])
           THEN ~(err.at = "validate_args" /\ err.subject = subject_of(f))
           ELSE /\ pc = "raised" /\ err.at = "validate_args"
                /\ err.subject \in checked_before(subject_of(f)) \cup {subject_of(f)}
                /\ err.subject = subject_of(f)
                      => err.type = "ValueError" /\ err.list = positions
                /\ others_default(f) => err.subject = subject_of(f)

C6_Witness ==
    /\ variant = "pyboxen" /\ op = "boxen" /\ pc = "raised"
    /\ args.style = PyStr("Double")
    /\ args.box_alignment = PyStr("up")
    /\ err.type = "ValueError" /\ err.subject = "box alignment"
    /\ delegate = <<>>

\* C7 as stated: validate_args rejects every fullwidth that is not a bool with
\* the TypeError, and accepts True and False.
C7_FullwidthChecked ==
    op = "boxen" /\ validated /\ others_default("fullwidth")
    => IF isinstance_bool(args.fullwidth)
       THEN err.at # "validate_args"
       ELSE rejected_by_validate("fullwidth") /\ err.type = "TypeError"

\* C7 amended: validate_args rejects every truthy fullwidth that is not a bool
\* (such as "yes" or 1) with the TypeError, unless the check of an earlier
\* argument raises first; True, False and the falsy non-bools (None, 0) are
\* accepted.
C7_TruthyFullwidthChecked ==
    op = "boxen" /\ validated
    => IF isinstance_bool(args.fullwidth) \/ ~truthy(args.fullwidth)
       THEN ~(err.at = "validate_args" /\ err.subject = "fullwidth")
       ELSE /\ pc = "raised" /\ err.at = "validate_args"
            /\ err.subject = "fullwidth" => err.type = "TypeError"
            /\ variant = "pyboxen" /\ others_default("fullwidth")
                  => err.subject = "fullwidth"

C7_Witness ==
    /\ op = "boxen" /\ pc = "raised"
    /\ args.fullwidth = PyStr("yes")
    /\ err.type = "TypeError" /\ err.subject = "fullwidth"

\* C8 as stated: a boxen call that fails in validate_args or in resolving a
\* size fails before any call on the rendering collaborator.
C8_FailsBeforeDelegate ==
    op = "boxen" /\ pc = "raised" /\ err.at \in {"validate_args", "parse_size"}
    => delegate = <<>>

\* C8 amended: a failure of validate_args precedes every call on the
\* rendering collaborator.  A size error is raised inside build_box, after
\* console.capture() was entered and the inner Group and Align were built
\* (and, for margin, the Panel), but before console.print: nothing is
\* printed, the capture is left empty and no string is returned.
C8_FailsBeforePrint ==
    /\ op = "boxen" /\ err.at = "validate_args"
          => delegate = <<>> /\ console = console_initial
    /\ op = "boxen" /\ err.at = "parse_size"
          => /\ "console.print" \notin delegated
             /\ {"console.capture", "Group", "Align.text"} \subseteq delegated
             /\ err.subject = "margin" => "Panel" \in delegated
             /\ console.buffer = <<>>
             /\ pc = "raised" => console = console_initial /\ out = <<>>

C8_Witness ==
    /\ op = "boxen" /\ pc = "raised"
    /\ err.at = "parse_size" /\ err.subject = "margin"
    /\ "Panel" \in delegated
    /\ "console.print" \notin delegated

\* C9: two boxen calls with the same arguments return the same string,
\* whatever calls came between them, and no call changes the console,
\* ALL_BOXES or POSITION_TYPES for the next.
C9_SameArgsSameOutput ==
    /\ pc = "returned" /\ op = "boxen" /\ memo.set /\ memo.args = args
          => out = memo.out
    /\ pc = "idle" => console = console_initial
    /\ ALL_BOXES = ALL_BOXES_of(variant)
    /\ POSITION_TYPES = POSITION_TYPES_initial

C9_Witness ==
    /\ pc = "returned" /\ op = "boxen"
    /\ memo.set /\ memo.failed /\ memo.args = args
    /\ args.padding = PyInt(1)
    /\ out = memo.out /\ Len(out) = 1

\* C10 as stated: in the earlier variant, the title_alignment and
\* subtitle_alignment checks reject the valid values left, center, right.
C10_ValidTitleAlignmentRejected ==
    \A f \in {"title_alignment", "subtitle_alignment"} :
        variant = "boxen" /\ op = "boxen" /\ validated /\ others_default(f)
            /\ valid_position(args[f])
        => rejected_by_validate(subject_of(f))

\* C10 amended: in the earlier variant, the title_alignment and
\* subtitle_alignment checks parse as (x and not str) or x not in
\* POSITION_TYPES: they accept left, center, right and reject every other
\* value, None and "" included.  The AND-combined text_alignment and
\* box_alignment checks reject no string at all.
C10_OrVariantRejectsOnlyInvalid ==
    /\ \A f \in {"title_alignment", "subtitle_alignment"} :
          variant = "boxen" /\ op = "boxen" /\ validated
          => IF valid_position(args[f])
             THEN ~(err.at = "validate_args" /\ err.subject = subject_of(f))
             ELSE /\ pc = "raised" /\ err.at = "validate_args"
                  /\ err.subject \in checked_before(subject_of(f)) \cup {subject_of(f)}
                  /\ others_default(f)
                        => err.subject = subject_of(f) /\ err.type = "ValueError"
    /\ \A f \in {"text_alignment", "box_alignment"} :
          variant = "boxen" /\ op = "boxen" /\ validated /\ isinstance_str(args[f])
          => ~(err.at = "validate_args" /\ err.subject = subject_of(f))

C10_Witness ==
    /\ variant = "boxen" /\ op = "boxen" /\ pc = "console.capture"
    /\ err = NoErr
    /\ args.title_alignment = PyStr("right")
    /\ args.text_alignment = PyStr("up")

====
